---- MODULE Spec2Model ----
(***************************************************************************)
(* Model of backend/main.py: the FastAPI handlers POST /chat and POST      *)
(* /register and the Pioneer / OpenAI helper coroutines they await.        *)
(*                                                                         *)
(* Text (a Python str) is a sequence of fragments, so that f-strings and   *)
(* "+" are sequence concatenation and "" is <<>>.  An Optional[str] is a   *)
(* record [isNone, s]; None is the record with isNone = TRUE.  A handler   *)
(* (one coroutine serving one HTTP request) advances from one await to the *)
(* next in one step; the collaborator's reply is the input of the step     *)
(* that resumes it.  Every outbound call and its return is appended to the *)
(* handler's entry of calls.                                               *)
(***************************************************************************)
EXTENDS Integers, Sequences, FiniteSets, TLC

VARIABLES concurrency, pc, request, user_summary, conversation, chunks,
          assistant_response, calls, inputs, response

vars == <<concurrency, pc, request, user_summary, conversation, chunks,
          assistant_response, calls, inputs, response>>

(* ------------------------------ bounds --------------------------------- *)

\* longest conversation_history of a request when one request is in flight
MaxHist == 2
\* most chunks in a /chunks reply when one request is in flight
MaxChunks == 2
\* longest conversation_history of a request when two requests overlap
MaxHistConc == 1

Handlers == {1, 2}

(* --------------------------- text and None ----------------------------- *)

None == [isNone |-> TRUE, s |-> <<>>]
Some(t) == [isNone |-> FALSE, s |-> t]

\* Python truthiness of an Optional[str]: None and "" are falsy
Truthy(o) == ~o.isNone /\ o.s # <<>>

\* dict.get(key, default): the default is used only when the key is absent
DictGet(d, key, default) == IF key \in DOMAIN d THEN d[key] ELSE default

SeqsUpTo(S, n) == UNION {[1..k -> S] : k \in 0..n}

RECURSIVE Join(_, _)
\* sep.join(lines), every line and sep a text
Join(sep, lines) ==
    IF lines = <<>> THEN <<>>
    ELSE IF Len(lines) = 1 THEN lines[1]
    ELSE lines[1] \o sep \o Join(sep, Tail(lines))

\* str(status_code) of the statuses the collaborators answer with
StatusText(n) ==
    CASE n = 200 -> "200" [] n = 400 -> "400" [] n = 409 -> "409"
      [] n = 422 -> "422" [] n = 500 -> "500" [] OTHER -> "?"

\* datetime.utcnow().isoformat() + "Z", for a clock reading t
UtcNowIsoZ(t) == <<t, "Z">>

ClockReadings == {"2026-01-01T00:00:00"}

(* ------------------------------ exceptions ----------------------------- *)

\* fastapi.HTTPException(status_code, detail); it derives from Exception
HTTPException(code, text) ==
    [type |-> "HTTPException", status_code |-> code, detail |-> text]
\* any other exception (httpx transport error, openai API error,
\* pydantic ValidationError) with its message
OtherException(kind, text) ==
    [type |-> kind, status_code |-> 0, detail |-> text]

\* str(e): starlette's HTTPException prints "{status_code}: {detail}"
StrOfException(e) ==
    IF e.type = "HTTPException"
    THEN <<StatusText(e.status_code), ": ">> \o e.detail
    ELSE e.detail

(* ------------------------ requests and replies ------------------------- *)

\* one request in flight: the full input domain; two overlapping requests:
\* a reduced one
Single == concurrency = 1

Contents == {<<"Hi">>}
Stamps == {None, Some(<<"2025-12-31T00:00:00Z">>)}

\* class Message(BaseModel): role, content, timestamp: Optional[str] = None
Message == [role : {"user", "assistant"}, content : Contents, timestamp : Stamps]
MessageConc == [role : {"user"}, content : Contents, timestamp : {None}]

\* class ChatRequest(BaseModel); user_email is used for logging only
ChatRequest ==
    IF Single
    THEN [endpoint : {"chat"}, message : {<<"How are you?">>, <<"Bye">>},
          conversation_history : SeqsUpTo(Message, MaxHist),
          user_id : {None, Some(<<>>), Some(<<"u1">>)}]
    ELSE [endpoint : {"chat"}, message : {<<"How are you?">>, <<"Bye">>},
          conversation_history : SeqsUpTo(MessageConc, MaxHistConc),
          user_id : {None, Some(<<"u1">>)}]

\* class RegisterUserRequest(BaseModel)
RegisterUserRequest ==
    IF Single
    THEN [endpoint : {"register"}, email : {<<"a@x.io">>, <<"bad">>},
          name : {None, Some(<<>>), Some(<<"Ann">>)},
          timezone : {None, Some(<<"UTC">>)}]
    ELSE [endpoint : {"register"}, email : {<<"a@x.io">>},
          name : {None}, timezone : {None}]

NoRequest == [endpoint |-> "none"]

\* an httpx reply: the call raised (timeout, transport error), or it
\* answered with a status, a body text and a JSON object
Raised == [exc |-> TRUE, status_code |-> 0, text |-> <<>>, json |-> [other |-> TRUE]]
Answer(code, body, obj) ==
    [exc |-> FALSE, status_code |-> code, text |-> body, json |-> obj]

SummaryReply ==
    IF Single
    THEN {Raised, Answer(500, <<"upstream error">>, [other |-> TRUE]),
          Answer(200, <<"{}">>, [other |-> TRUE]),
          Answer(200, <<"{..}">>, [summary |-> Some(<<>>)]),
          Answer(200, <<"{..}">>, [summary |-> Some(<<"Likes tea">>)])}
    ELSE {Raised, Answer(200, <<"{..}">>, [summary |-> Some(<<"Likes tea">>)])}

\* ContextChunk: a dict with a "text" and service-defined fields
Chunk == [text : {<<"c1">>, <<"c2">>}]

ChunksReply ==
    IF Single
    THEN {Raised, Answer(500, <<"upstream error">>, [other |-> TRUE]),
          Answer(200, <<"{}">>, [other |-> TRUE])}
         \cup {Answer(200, <<"{..}">>, [chunks |-> cs]) : cs \in SeqsUpTo(Chunk, MaxChunks)}
    ELSE {Answer(500, <<"upstream error">>, [other |-> TRUE]),
          Answer(200, <<"{..}">>, [chunks |-> <<[text |-> <<"c1">>]>>])}

\* openai_client.chat.completions.create: it raises, or it returns a
\* completion whose message content is a str, or None when the model
\* answers with a call of the attached tool
CompletionOutcome ==
    IF Single
    THEN {[exc |-> TRUE, content |-> None],
          [exc |-> FALSE, content |-> Some(<<"Fine, thanks.">>)],
          [exc |-> FALSE, content |-> None]}
    ELSE {[exc |-> TRUE, content |-> None],
          [exc |-> FALSE, content |-> Some(<<"Fine, thanks.">>)],
          [exc |-> FALSE, content |-> Some(<<"See you.">>)]}

IngestReply ==
    IF Single
    THEN {Raised, Answer(500, <<"upstream error">>, [other |-> TRUE]),
          Answer(200, <<"{}">>, [other |-> TRUE])}
    ELSE {Raised, Answer(200, <<"{}">>, [other |-> TRUE])}

RegisterReply ==
    IF Single
    THEN {Raised,
          Answer(200, <<"{..}">>, [user_id |-> Some(<<"u1">>)]),
          Answer(200, <<"{}">>, [other |-> TRUE]),
          Answer(400, <<"invalid email">>, [other |-> TRUE]),
          Answer(409, <<"duplicate email">>, [other |-> TRUE]),
          Answer(422, <<"invalid email">>, [other |-> TRUE])}
    ELSE {Answer(200, <<"{..}">>, [user_id |-> Some(<<"u1">>)]),
          Answer(409, <<"duplicate email">>, [other |-> TRUE])}

(* ------------------------- collaborator calls -------------------------- *)

Call(service, payload) == [kind |-> "call", svc |-> service, data |-> payload]
Return(service, reply) == [kind |-> "return", svc |-> service, data |-> reply]

\* get_user_summary: the default max_chars
MaxChars == 1000
\* get_relevant_chunks: the default k
TopK == 5

\* get_user_summary: the params of GET /summary
SummaryPayload(user_id) == [user_id |-> user_id, max_chars |-> MaxChars]

\* get_user_summary: data.get("summary") on 200, None on any other status
\* and on any exception
get_user_summary(reply) ==
    IF reply.exc THEN None
    ELSE IF reply.status_code = 200 THEN DictGet(reply.json, "summary", None)
    ELSE None

\* get_relevant_chunks: the body of POST /chunks, timestamps not copied
ChunksPayload(user_id, conv) ==
    [user_id |-> user_id,
     history |-> [i \in 1..Len(conv) |->
                    [role |-> conv[i].role, content |-> conv[i].content]],
     k |-> TopK]

\* get_relevant_chunks: data.get("chunks", []) on 200, [] on any other
\* status and on any exception
get_relevant_chunks(reply) ==
    IF reply.exc THEN <<>>
    ELSE IF reply.status_code = 200 THEN DictGet(reply.json, "chunks", <<>>)
    ELSE <<>>

\* ingest_conversation: role, content and msg.get("timestamp", now) of
\* every message
FormatMessages(messages, t) ==
    [i \in 1..Len(messages) |->
        [role |-> messages[i].role,
         content |-> messages[i].content,
         timestamp |-> DictGet(messages[i], "timestamp", Some(UtcNowIsoZ(t)))]]

\* ingest_conversation: the body of POST /ingest
IngestPayload(user_id, messages, t) ==
    [user_id |-> user_id, source |-> "chat_app",
     message_history |-> FormatMessages(messages, t), dedupe |-> TRUE]

(* ------------------------------ POST /chat ----------------------------- *)

\* chat: "if not request.user_id"
MissingUserIdNoneOnly(req) == req.user_id.isNone
MissingUserId(req) == ~Truthy(req.user_id)

\* chat: the exception raised for a request without user_id
ValidationError400 ==
    HTTPException(400, <<"user_id is required. Please register on the frontend first.">>)

\* chat: "except Exception as e: raise HTTPException(status_code=500, ...)";
\* the clause catches every exception raised in the try block
ChatExcept(e) ==
    HTTPException(500, <<"Error processing chat: ">> \o StrOfException(e))

\* msg.model_dump(): every field of the Message, a timestamp of None included
model_dump(msg) ==
    [role |-> msg.role, content |-> Some(msg.content), timestamp |-> msg.timestamp]

\* chat: conversation = history dumped, then the current user message
BuildConversation(req, t) ==
    [i \in 1..Len(req.conversation_history) |->
        model_dump(req.conversation_history[i])]
    \o <<[role |-> "user", content |-> Some(req.message),
          timestamp |-> Some(UtcNowIsoZ(t))]>>

\* chat: the system prompt, with the profile when user_summary is truthy
SystemPrompt(summary) ==
    <<"You are a helpful AI assistant.">>
    \o (IF Truthy(summary)
        THEN <<"\n\nUser Profile:\n">> \o summary.s
             \o <<"\n\nKeep the user's preferences and context in mind when responding.">>
        ELSE <<>>)

\* chat: the user message, with the context block when chunks is truthy
UserMessageNoGuard(message, cs) ==
    message
    \o <<"\n\n[Relevant context from past conversations:\n">>
    \o Join(<<"\n">>, [i \in 1..Len(cs) |-> <<"- ">> \o cs[i].text])
    \o <<"]">>
UserMessage(message, cs) ==
    message
    \o (IF cs # <<>>
        THEN <<"\n\n[Relevant context from past conversations:\n">>
             \o Join(<<"\n">>, [i \in 1..Len(cs) |-> <<"- ">> \o cs[i].text])
             \o <<"]">>
        ELSE <<>>)

\* chat: the messages sent to the model
CompletionMessages(req, summary, cs) ==
    <<[role |-> "system", content |-> SystemPrompt(summary)]>>
    \o [i \in 1..Len(req.conversation_history) |->
          [role |-> req.conversation_history[i].role,
           content |-> req.conversation_history[i].content]]
    \o <<[role |-> "user", content |-> UserMessage(req.message, cs)]>>

\* chat: the arguments of openai_client.chat.completions.create
CompletionPayload(req, summary, cs) ==
    [model |-> "gpt-4.1", messages |-> CompletionMessages(req, summary, cs),
     tools |-> <<"query_user_knowledge">>]

\* chat: the assistant turn appended to conversation before ingestion
AssistantMessage(content, t) ==
    [role |-> "assistant", content |-> content, timestamp |-> Some(UtcNowIsoZ(t))]

\* what FastAPI answers: the returned model, or the raised HTTPException
NoResponse == [status_code |-> 0, detail |-> <<>>, response |-> <<>>,
               relevant_context |-> [isNone |-> TRUE, val |-> <<>>],
               user_profile |-> None]
ErrorResponse(e) == [NoResponse EXCEPT !.status_code = e.status_code,
                                       !.detail = e.detail]

\* ChatResponse(response: str, ...): pydantic rejects a response of None
ChatResponseValid(content) == ~content.isNone

\* chat: "return ChatResponse(response=assistant_response,
\* relevant_context=chunks if chunks else None, user_profile=user_summary)"
ChatReturn(content, cs, summary) ==
    IF ChatResponseValid(content)
    THEN [NoResponse EXCEPT
            !.status_code = 200,
            !.response = content.s,
            !.relevant_context = IF cs # <<>> THEN [isNone |-> FALSE, val |-> cs]
                                 ELSE [isNone |-> TRUE, val |-> <<>>],
            !.user_profile = summary]
    ELSE ErrorResponse(ChatExcept(OtherException("ValidationError",
                           <<"response: Input should be a valid string">>)))

\* chat: get_user_summary has returned and get_relevant_chunks is awaited
\* next; no fetch is repeated
FetchEventsRetry(uid, reply, conv) ==
    <<Return("summary", reply)>>
    \o (IF reply.exc \/ reply.status_code # 200
        THEN <<Call("summary", SummaryPayload(uid)), Return("summary", reply)>>
        ELSE <<>>)
    \o <<Call("chunks", ChunksPayload(uid, conv))>>
FetchEvents(uid, reply, conv) ==
    <<Return("summary", reply), Call("chunks", ChunksPayload(uid, conv))>>

\* chat: conversation is a local list of the call being served
ConversationShared(h) == conversation[1]
Conversation(h) == conversation[h]

\* chat: an exception raised by completions.create leaves the try block at
\* once, so nothing after the call runs
PropagatesNever(comp) == FALSE
Propagates(comp) == comp.exc

\* ingest_conversation: a non-200 status and any exception are only printed
IngestRaises(reply) == FALSE

\* chat, from the request's arrival to the await of get_user_summary, or
\* to the error answer of a request without user_id
ChatStart(h) ==
    /\ pc[h] = "idle"
    /\ \E req \in ChatRequest :
         /\ request' = [request EXCEPT ![h] = req]
         /\ IF MissingUserId(req)
            THEN /\ response' = [response EXCEPT
                                   ![h] = ErrorResponse(ChatExcept(ValidationError400))]
                 /\ pc' = [pc EXCEPT ![h] = "done"]
                 /\ UNCHANGED calls
            ELSE /\ calls' = [calls EXCEPT
                                ![h] = <<Call("summary", SummaryPayload(req.user_id.s))>>]
                 /\ pc' = [pc EXCEPT ![h] = "await_summary"]
                 /\ UNCHANGED response
    /\ UNCHANGED <<concurrency, user_summary, conversation, chunks,
                   assistant_response, inputs>>

\* chat, from the return of get_user_summary to the await of
\* get_relevant_chunks
SummaryReturn(h) ==
    /\ pc[h] = "await_summary"
    /\ \E reply \in SummaryReply, t \in ClockReadings :
         LET conv == BuildConversation(request[h], t) IN
         /\ user_summary' = [user_summary EXCEPT ![h] = get_user_summary(reply)]
         /\ conversation' = [conversation EXCEPT ![h] = conv]
         /\ calls' = [calls EXCEPT
                        ![h] = @ \o FetchEvents(request[h].user_id.s, reply, conv)]
         /\ inputs' = [inputs EXCEPT ![h] = Append(@, [reply |-> reply, t |-> t])]
    /\ pc' = [pc EXCEPT ![h] = "await_chunks"]
    /\ UNCHANGED <<concurrency, request, chunks, assistant_response, response>>

\* chat, from the return of get_relevant_chunks to the await of
\* ingest_conversation; completions.create is a synchronous call, made and
\* answered within this step
ChunksReturn(h) ==
    /\ pc[h] = "await_chunks"
    /\ \E reply \in ChunksReply, comp \in CompletionOutcome, t \in ClockReadings :
         LET cs == get_relevant_chunks(reply)
             evs == <<Return("chunks", reply),
                      Call("completion",
                           CompletionPayload(request[h], user_summary[h], cs)),
                      Return("completion", comp)>>
             conv == Conversation(h) \o <<AssistantMessage(comp.content, t)>>
         IN
         /\ chunks' = [chunks EXCEPT ![h] = cs]
         /\ inputs' = [inputs EXCEPT
                         ![h] = Append(@, [reply |-> reply, comp |-> comp, t |-> t])]
         /\ IF Propagates(comp)
            THEN /\ calls' = [calls EXCEPT ![h] = @ \o evs]
                 /\ response' = [response EXCEPT
                       ![h] = ErrorResponse(ChatExcept(
                                 OtherException("APIError", <<"openai error">>)))]
                 /\ pc' = [pc EXCEPT ![h] = "done"]
                 /\ UNCHANGED <<assistant_response, conversation>>
            ELSE /\ assistant_response' = [assistant_response EXCEPT ![h] = comp.content]
                 /\ conversation' = [conversation EXCEPT ![h] = conv]
                 /\ calls' = [calls EXCEPT
                       ![h] = @ \o evs
                              \o <<Call("ingest",
                                        IngestPayload(request[h].user_id.s, conv, t))>>]
                 /\ pc' = [pc EXCEPT ![h] = "await_ingest"]
                 /\ UNCHANGED response
    /\ UNCHANGED <<concurrency, request, user_summary>>

\* chat, from the return of ingest_conversation to the answer
IngestReturn(h) ==
    /\ pc[h] = "await_ingest"
    /\ \E reply \in IngestReply :
         /\ calls' = [calls EXCEPT ![h] = Append(@, Return("ingest", reply))]
         /\ inputs' = [inputs EXCEPT ![h] = Append(@, [reply |-> reply])]
         /\ response' = [response EXCEPT
               ![h] = IF IngestRaises(reply)
                      THEN ErrorResponse(ChatExcept(
                              OtherException("HTTPError", <<"ingest failed">>)))
                      ELSE ChatReturn(assistant_response[h], chunks[h],
                                      user_summary[h])]
    /\ pc' = [pc EXCEPT ![h] = "done"]
    /\ UNCHANGED <<concurrency, request, user_summary, conversation, chunks,
                   assistant_response>>

(* ---------------------------- POST /register --------------------------- *)

\* register_pioneer_user: the body of POST /register; a trait is set only
\* when the field is truthy
RegisterPayload(req) ==
    [email |-> req.email,
     purpose |-> "A personalized AI chat assistant that learns from conversations and adapts to user preferences",
     traits |-> [name |-> IF Truthy(req.name) THEN req.name ELSE None,
                 timezone |-> IF Truthy(req.timezone) THEN req.timezone ELSE None]]

\* register_pioneer_user: the HTTPException raised on a status other than 200
RegisterFailed(reply) ==
    HTTPException(reply.status_code,
                  <<"Failed to register user with Pioneer: ">> \o reply.text)

\* register_user: "except Exception as e: raise HTTPException(500, str(e))"
RegisterExcept(e) == HTTPException(500, StrOfException(e))

NoRegisterResponse ==
    [status_code |-> 0, detail |-> <<>>, success |-> FALSE, user_id |-> None,
     message |-> <<>>]

\* register_user: what the caller of POST /register gets for a reply of the
\* personalization service
RegisterResult(req, reply) ==
    IF reply.exc
    THEN LET e == RegisterExcept(OtherException("TransportError", <<"timed out">>)) IN
         [NoRegisterResponse EXCEPT !.status_code = e.status_code, !.detail = e.detail]
    ELSE IF reply.status_code # 200
    THEN LET e == RegisterExcept(RegisterFailed(reply)) IN
         [NoRegisterResponse EXCEPT !.status_code = e.status_code, !.detail = e.detail]
    ELSE [NoRegisterResponse EXCEPT
            !.status_code = 200, !.success = TRUE,
            !.user_id = DictGet(reply.json, "user_id", None),
            !.message = <<"User ">> \o req.email \o <<" registered successfully">>]

\* register_user, from the request's arrival to the await of client.post
RegisterStart(h) ==
    /\ pc[h] = "idle"
    /\ \E req \in RegisterUserRequest :
         /\ request' = [request EXCEPT ![h] = req]
         /\ calls' = [calls EXCEPT ![h] = <<Call("register", RegisterPayload(req))>>]
    /\ pc' = [pc EXCEPT ![h] = "await_register"]
    /\ UNCHANGED <<concurrency, user_summary, conversation, chunks,
                   assistant_response, inputs, response>>

\* register_user, from the reply of the personalization service to the answer
RegisterReturn(h) ==
    /\ pc[h] = "await_register"
    /\ \E reply \in RegisterReply :
         /\ calls' = [calls EXCEPT ![h] = Append(@, Return("register", reply))]
         /\ inputs' = [inputs EXCEPT ![h] = Append(@, [reply |-> reply])]
         /\ response' = [response EXCEPT ![h] = RegisterResult(request[h], reply)]
    /\ pc' = [pc EXCEPT ![h] = "done"]
    /\ UNCHANGED <<concurrency, request, user_summary, conversation, chunks,
                   assistant_response>>

(* --------------------------- specifications ---------------------------- *)

\* the state of a server on which `n` requests can be in flight at once,
\* before any request has arrived
Start(n) ==
    /\ concurrency = n
    /\ pc = [h \in Handlers |-> "idle"]
    /\ request = [h \in Handlers |-> NoRequest]
    /\ user_summary = [h \in Handlers |-> None]
    /\ conversation = [h \in Handlers |-> <<>>]
    /\ chunks = [h \in Handlers |-> <<>>]
    /\ assistant_response = [h \in Handlers |-> None]
    /\ calls = [h \in Handlers |-> <<>>]
    /\ inputs = [h \in Handlers |-> <<>>]
    /\ response = [h \in Handlers |-> NoResponse]

Init == Start(1)
InitConc == Start(2)

\* the handlers that can be in flight
Live == 1..concurrency

Next ==
    \/ \E h \in Live : ChatStart(h)
    \/ \E h \in Live : SummaryReturn(h)
    \/ \E h \in Live : ChunksReturn(h)
    \/ \E h \in Live : IngestReturn(h)
    \/ \E h \in Live : RegisterStart(h)
    \/ \E h \in Live : RegisterReturn(h)

Spec == Init /\ [][Next]_vars
SpecConc == InitConc /\ [][Next]_vars

(* ------------------------------ properties ----------------------------- *)

IsChat(h) == request[h].endpoint = "chat"
IsRegister(h) == request[h].endpoint = "register"
NoUserId(h) == request[h].user_id.isNone \/ request[h].user_id.s = <<>>

\* the positions of the calls of a service in the log of handler h
CallsTo(h, service) ==
    {i \in DOMAIN calls[h] : calls[h][i].kind = "call" /\ calls[h][i].svc = service}
\* the replies a service gave to handler h
ReturnsOf(h, service) ==
    {calls[h][i].data : i \in {j \in DOMAIN calls[h] :
        calls[h][j].kind = "return" /\ calls[h][j].svc = service}}

\* C1: a /chat request whose user_id is absent or empty is finished by its
\* first step and has made no collaborator call at all: no summary fetch,
\* no chunks fetch, no completion request, no ingest submission.
ThmC1 ==
    \A h \in Handlers :
        (IsChat(h) /\ NoUserId(h)) => (pc[h] = "done" /\ calls[h] = <<>>)

WitC1 ==
    \E h \in Handlers :
        IsChat(h) /\ request[h].user_id = Some(<<>>) /\ pc[h] = "done"
        /\ response[h].status_code # 0

\* C2: a /chat request whose user_id is absent is answered with status 400,
\* the status of the validation error raised in the handler.
CexC2 ==
    \A h \in Handlers :
        (IsChat(h) /\ NoUserId(h) /\ pc[h] = "done")
            => response[h].status_code = 400

\* C3: when the completion call of a /chat request fails, the request ends
\* with status 500 and no ingest submission is made for it, whatever the
\* profile and chunk fetches answered.
ThmC3 ==
    \A h \in Handlers :
        (IsChat(h) /\ \E r \in ReturnsOf(h, "completion") : r.exc)
            => /\ pc[h] = "done"
               /\ response[h].status_code = 500
               /\ CallsTo(h, "ingest") = {}

WitC3 ==
    \E h \in Handlers :
        /\ IsChat(h) /\ pc[h] = "done"
        /\ \E r \in ReturnsOf(h, "completion") : r.exc
        /\ \E r \in ReturnsOf(h, "summary") : ~r.exc /\ r.status_code = 200
        /\ \E r \in ReturnsOf(h, "chunks") : r.exc

\* the profile fetch of handler h failed: it raised or answered non-200
FetchFailed(h, service) ==
    \E r \in ReturnsOf(h, service) : r.exc \/ r.status_code # 200

\* C4: a /chat request whose completion call succeeds returns status 200
\* with the completion's content as response text, for every outcome of
\* the profile fetch, the chunk fetch and the ingest call; user_profile is
\* absent after a failed profile fetch and relevant_context is absent after
\* a failed chunk fetch.
CexC4 ==
    \A h \in Handlers :
        (IsChat(h) /\ pc[h] = "done"
         /\ \E r \in ReturnsOf(h, "completion") : ~r.exc)
            => /\ response[h].status_code = 200
               /\ \A r \in ReturnsOf(h, "completion") :
                     Some(response[h].response) = r.content
               /\ FetchFailed(h, "summary") => response[h].user_profile.isNone
               /\ FetchFailed(h, "chunks") => response[h].relevant_context.isNone

\* C5: when the personalization service answers the registration call with
\* a status other than 200, POST /register answers with that same status
\* and the upstream body unchanged.
CexC5 ==
    \A h \in Handlers :
        (IsRegister(h) /\ pc[h] = "done")
            => \A r \in ReturnsOf(h, "register") :
                  (~r.exc /\ r.status_code # 200)
                      => /\ response[h].status_code = r.status_code
                         /\ response[h].detail = r.text

\* the order of the four collaborator calls of one /chat request
CallOrder ==
    <<<<"call", "summary">>, <<"return", "summary">>,
      <<"call", "chunks">>, <<"return", "chunks">>,
      <<"call", "completion">>, <<"return", "completion">>,
      <<"call", "ingest">>, <<"return", "ingest">>>>

\* C6: the collaborator calls of a /chat request are issued in the order
\* profile fetch, chunk fetch, completion, ingest; each starts after the
\* previous one has returned and each is attempted at most once: the log
\* of the request is always an initial part of CallOrder.
ThmC6 ==
    \A h \in Handlers :
        IsChat(h) =>
            /\ Len(calls[h]) <= Len(CallOrder)
            /\ \A i \in DOMAIN calls[h] :
                  <<calls[h][i].kind, calls[h][i].svc>> = CallOrder[i]

WitC6 ==
    \E h \in Handlers :
        /\ IsChat(h) /\ pc[h] = "done" /\ Len(calls[h]) = Len(CallOrder)
        /\ FetchFailed(h, "summary") /\ FetchFailed(h, "chunks")
        /\ FetchFailed(h, "ingest")

\* C7: every ingest submission of a /chat request carries the request's
\* conversation_history in its order, then the current user message, then
\* the assistant message; the assistant message has a non-empty timestamp
\* and its content is the response text the caller gets.
CexC7 ==
    \A h \in Handlers :
        IsChat(h) =>
            \A i \in CallsTo(h, "ingest") :
                LET mh == calls[h][i].data.message_history
                    hist == request[h].conversation_history
                    n == Len(hist)
                IN  /\ Len(mh) = n + 2
                    /\ \A j \in 1..n :
                          /\ mh[j].role = hist[j].role
                          /\ mh[j].content = Some(hist[j].content)
                    /\ mh[n + 1].role = "user"
                    /\ mh[n + 1].content = Some(request[h].message)
                    /\ mh[n + 2].role = "assistant"
                    /\ Truthy(mh[n + 2].timestamp)
                    /\ pc[h] = "done" =>
                          /\ response[h].status_code = 200
                          /\ Some(response[h].response) = mh[n + 2].content

\* C8: the message list sent to the model is one system message, then the
\* conversation_history messages in order with role and content only, then
\* one user message.  That message begins with the request's message; the
\* context block follows if and only if chunks were returned, and it holds
\* one line "- {text}" per chunk, in the order of the upstream reply.
ThmC8 ==
    \A h \in Handlers :
        IsChat(h) =>
            \A i \in CallsTo(h, "completion") :
                LET m == calls[h][i].data.messages
                    hist == request[h].conversation_history
                    n == Len(hist)
                    reply == calls[h][i - 1].data
                    cs == IF ~reply.exc /\ reply.status_code = 200
                             /\ "chunks" \in DOMAIN reply.json
                          THEN reply.json.chunks ELSE <<>>
                    k == Len(cs)
                    c == m[n + 2].content
                    msg == request[h].message
                    rest == SubSeq(c, Len(msg) + 1, Len(c))
                IN  /\ Len(m) = n + 2
                    /\ m[1].role = "system"
                    /\ \A j \in 1..n :
                          m[j + 1] = [role |-> hist[j].role, content |-> hist[j].content]
                    /\ m[n + 2].role = "user"
                    /\ SubSeq(c, 1, Len(msg)) = msg
                    /\ (rest # <<>>) <=> (k > 0)
                    /\ k > 0 =>
                          /\ Len(rest) = 3 * k + 1
                          /\ rest[1] = "\n\n[Relevant context from past conversations:\n"
                          /\ rest[Len(rest)] = "]"
                          /\ \A j \in 1..k :
                                /\ rest[3 * j - 1] = "- "
                                /\ <<rest[3 * j]>> = cs[j].text
                                /\ j < k => rest[3 * j + 1] = "\n"

WitC8 ==
    \E h \in Handlers :
        /\ IsChat(h) /\ CallsTo(h, "completion") # {}
        /\ Len(request[h].conversation_history) = 2
        /\ Len(chunks[h]) = 2 /\ chunks[h][1] # chunks[h][2]

\* C9: in every ingest submission every element of message_history has a
\* non-empty timestamp, the conversation_history messages that came without
\* one included.
CexC9 ==
    \A h \in Handlers :
        IsChat(h) =>
            \A i \in CallsTo(h, "ingest") :
                \A j \in DOMAIN calls[h][i].data.message_history :
                    Truthy(calls[h][i].data.message_history[j].timestamp)

\* chat, run from its start to its n-th await on the request `req` alone,
\* with `ins` the replies and clock readings it was given: the calls it has
\* logged and the response it has given
SoloChat(req, ins) ==
    LET uid == req.user_id.s
        conv1 == BuildConversation(req, ins[1].t)
        summary == get_user_summary(ins[1].reply)
        cs == get_relevant_chunks(ins[2].reply)
        comp == ins[2].comp
        conv2 == conv1 \o <<AssistantMessage(comp.content, ins[2].t)>>
        log0 == <<Call("summary", SummaryPayload(uid))>>
        log1 == log0 \o <<Return("summary", ins[1].reply),
                          Call("chunks", ChunksPayload(uid, conv1))>>
        log2 == log1 \o <<Return("chunks", ins[2].reply),
                          Call("completion", CompletionPayload(req, summary, cs)),
                          Return("completion", comp)>>
        log3 == log2 \o <<Call("ingest", IngestPayload(uid, conv2, ins[2].t))>>
        log4 == log3 \o <<Return("ingest", ins[3].reply)>>
    IN  IF ~Truthy(req.user_id)
        THEN [calls |-> <<>>,
              response |-> ErrorResponse(ChatExcept(ValidationError400))]
        ELSE IF Len(ins) = 0 THEN [calls |-> log0, response |-> NoResponse]
        ELSE IF Len(ins) = 1 THEN [calls |-> log1, response |-> NoResponse]
        ELSE IF comp.exc
        THEN [calls |-> log2,
              response |-> ErrorResponse(ChatExcept(
                               OtherException("APIError", <<"openai error">>)))]
        ELSE IF Len(ins) = 2 THEN [calls |-> log3, response |-> NoResponse]
        ELSE [calls |-> log4, response |-> ChatReturn(comp.content, cs, summary)]

\* the calls and the response of every /chat request are those of the same
\* request run alone on the same replies
AsRunAlone ==
    \A h \in Handlers :
        IsChat(h) =>
            /\ calls[h] = SoloChat(request[h], inputs[h]).calls
            /\ response[h] = SoloChat(request[h], inputs[h]).response

\* a step leaves the request, the locals, the log and the response of every
\* handler that does not move as they are
OthersUntouched ==
    \A h \in Handlers :
        pc'[h] = pc[h] =>
            /\ request'[h] = request[h]
            /\ user_summary'[h] = user_summary[h]
            /\ conversation'[h] = conversation[h]
            /\ chunks'[h] = chunks[h]
            /\ assistant_response'[h] = assistant_response[h]
            /\ calls'[h] = calls[h]
            /\ inputs'[h] = inputs[h]
            /\ response'[h] = response[h]

\* C10: whatever the interleaving of two overlapping /chat requests, the
\* calls each request has made (with their payloads: chunks history,
\* completion messages, ingest message_history) and the response it has
\* given are those of the same request run alone on the same replies, and
\* no step of one request alters the state of the other.
ThmC10 == []AsRunAlone /\ [][OthersUntouched]_vars

WitC10 ==
    /\ IsChat(1) /\ IsChat(2)
    /\ request[1].user_id = request[2].user_id
    /\ request[1].message # request[2].message
    /\ pc[1] = "await_chunks" /\ pc[2] = "await_ingest"
    /\ Len(request[1].conversation_history) = 1

====
